---- MODULE Spec2Model ----
(***************************************************************************)
(* Model of the asset-trading simulator: PortfolioSimulator                *)
(* (src/trading_simulator.py) driven by an AssetPriceHistory source        *)
(* (src/mode_config.py).  Money is decimal.Decimal under Python's default  *)
(* context (28 significant digits, ROUND_HALF_EVEN); the model keeps that  *)
(* arithmetic, with coefficients held as digit sequences.                  *)
(***************************************************************************)
EXTENDS Integers, Sequences, FiniteSets, TLC

(***************************************************************************)
(* Natural numbers as little-endian digit sequences (<<>> is 0, the last   *)
(* element is the most significant digit and is never 0).                  *)
(***************************************************************************)
\* digit i of a, 0 beyond its length
Dig(a, i) == IF i <= Len(a) THEN a[i] ELSE 0

\* the highest index at or below i holding a non-zero digit, 0 if none
RECURSIVE TopNonZero(_, _)
TopNonZero(a, i) ==
    IF i = 0 THEN 0 ELSE IF a[i] # 0 THEN i ELSE TopNonZero(a, i - 1)

\* the lowest index at or above i holding a non-zero digit (a has one)
RECURSIVE LowNonZero(_, _)
LowNonZero(a, i) == IF a[i] # 0 THEN i ELSE LowNonZero(a, i + 1)

StripHigh(a) == SubSeq(a, 1, TopNonZero(a, Len(a)))

RECURSIVE NatOfInt(_)
NatOfInt(n) == IF n = 0 THEN <<>> ELSE <<n % 10>> \o NatOfInt(n \div 10)

\* Arithmetic goes through limbs of four digits (base 10000), so that a carry
\* pass takes a quarter of the steps; a sum of up to 21 products of two limbs
\* fits the model's integers, and the shorter factor of every product the
\* program forms has at most 29 digits (8 limbs).
LimbBase == 10000
LimbPow == <<1, 10, 100, 1000>>

\* the limbs of a digit sequence, least significant first
Limbs(a) ==
    LET n == (Len(a) + 3) \div 4
    IN  SubSeq([k \in 1..n |-> Dig(a, 4 * k - 3) + 10 * Dig(a, 4 * k - 2)
                               + 100 * Dig(a, 4 * k - 1) + 1000 * Dig(a, 4 * k)],
               1, n)

\* the digit sequence of a limb sequence
Digits(l) ==
    LET n == 4 * Len(l)
    IN  StripHigh(SubSeq([i \in 1..n |->
                             (l[(i + 3) \div 4] \div LimbPow[((i - 1) % 4) + 1]) % 10],
                         1, n))

\* limbs k.. of the column sums cols plus the carry c into limb k
RECURSIVE CarryFrom(_, _, _)
CarryFrom(cols, k, c) ==
    IF k > Len(cols) /\ c = 0 THEN <<>>
    ELSE LET s == Dig(cols, k) + c
         IN  <<s % LimbBase>> \o CarryFrom(cols, k + 1, s \div LimbBase)

NatAdd(a, b) ==
    LET la == Limbs(a)
        lb == Limbs(b)
        n  == IF Len(la) > Len(lb) THEN Len(la) ELSE Len(lb)
    IN  Digits(CarryFrom(SubSeq([k \in 1..n |-> Dig(la, k) + Dig(lb, k)], 1, n), 1, 0))

\* limbs k.. of la - lb - br, br the borrow out of limb k - 1
RECURSIVE BorrowFrom(_, _, _, _)
BorrowFrom(la, lb, k, br) ==
    IF k > Len(la) THEN <<>>
    ELSE LET d == la[k] - Dig(lb, k) - br
         IN  <<(d + LimbBase) % LimbBase>> \o BorrowFrom(la, lb, k + 1, IF d < 0 THEN 1 ELSE 0)

\* a - b for a >= b
NatSub(a, b) == Digits(BorrowFrom(Limbs(a), Limbs(b), 1, 0))

\* -1, 0, 1 as a <, =, > b
NatCmp(a, b) ==
    IF Len(a) < Len(b) THEN -1
    ELSE IF Len(a) > Len(b) THEN 1
    ELSE IF a = b THEN 0
    ELSE IF \E i \in 1..Len(a) : a[i] > b[i] /\ \A j \in (i + 1)..Len(a) : a[j] = b[j]
    THEN 1
    ELSE -1

\* a * 10^k
NatShift(a, k) == IF a = <<>> \/ k <= 0 THEN a ELSE [i \in 1..k |-> 0] \o a

\* column k of the product of la (the shorter) and lb: the sum of la[i] * lb[j]
\* over i + j = k + 1, taken from i down to 1
RECURSIVE Column(_, _, _, _)
Column(la, lb, k, i) ==
    IF i = 0 THEN 0
    ELSE (IF k + 1 - i >= 1 /\ k + 1 - i <= Len(lb) THEN la[i] * lb[k + 1 - i] ELSE 0)
         + Column(la, lb, k, i - 1)

MulLimbs(la, lb) ==
    LET n == Len(la) + Len(lb) - 1
    IN  CarryFrom(SubSeq([k \in 1..n |-> Column(la, lb, k, Len(la))], 1, n), 1, 0)

NatMul(a, b) ==
    IF a = <<>> \/ b = <<>> THEN <<>>
    ELSE IF Len(a) < Len(b) THEN Digits(MulLimbs(Limbs(a), Limbs(b)))
    ELSE Digits(MulLimbs(Limbs(b), Limbs(a)))

\* <<d, r - d * b>> for the greatest d with d * b <= r, counting up from q
RECURSIVE QuotRem(_, _, _)
QuotRem(r, b, q) ==
    IF NatCmp(r, b) < 0 THEN <<q, r>> ELSE QuotRem(NatSub(r, b), b, q + 1)

\* long division from the most significant digit i of a down to digit 1;
\* returns the quotient
RECURSIVE DivFrom(_, _, _, _, _)
DivFrom(a, b, i, q, r) ==
    IF i = 0 THEN q
    ELSE LET qr == QuotRem(StripHigh(<<a[i]>> \o r), b, 0)
             q2 == StripHigh(<<qr[1]>> \o q)
         \* the test evaluates qr and q2 before the next digit is taken
         IN  IF Len(qr[2]) + Len(q2) >= 0 THEN DivFrom(a, b, i - 1, q2, qr[2]) ELSE <<>>

\* floor(a / b) for b # 0
NatDiv(a, b) == DivFrom(a, b, Len(a), <<>>, <<>>)

AllZero(a) == \A i \in 1..Len(a) : a[i] = 0

(***************************************************************************)
(* decimal.Decimal values: (-1)^neg * coef * 10^exp, kept canonical (no    *)
(* low zero digit in coef; zero is [neg FALSE, coef <<>>, exp 0]) so that  *)
(* numeric equality of Decimals is equality of records.                     *)
(***************************************************************************)
Prec == 28

Canon(neg, coef, exp) ==
    LET c  == StripHigh(coef)
        lo == LowNonZero(c, 1)
    IN  IF c = <<>> THEN [neg |-> FALSE, coef |-> <<>>, exp |-> 0]
        ELSE [neg |-> neg, coef |-> SubSeq(c, lo, Len(c)), exp |-> exp + lo - 1]

\* the context's rounding of an exact result: keep the Prec most significant
\* digits, ROUND_HALF_EVEN on the dropped ones
DRoundTo(p, neg, coef, exp) ==
    IF Len(coef) <= p THEN Canon(neg, coef, exp)
    ELSE LET k    == Len(coef) - p
             low  == SubSeq(coef, 1, k)
             high == SubSeq(coef, k + 1, Len(coef))
             rest == AllZero(SubSeq(low, 1, k - 1))
             up   == \/ low[k] > 5
                     \/ low[k] = 5 /\ ~rest
                     \/ low[k] = 5 /\ rest /\ high[1] % 2 = 1
         IN  Canon(neg, IF up THEN NatAdd(high, <<1>>) ELSE high, exp + k)

DRound(neg, coef, exp) == DRoundTo(Prec, neg, coef, exp)

\* Decimal(n) for a Python int n small enough for the model's integers
DInt(n) == Canon(n < 0, NatOfInt(IF n < 0 THEN -n ELSE n), 0)

DZero == DInt(0)

\* Decimal of a digit tuple written most significant digit first, and an exponent
Dec(digits, exp) ==
    Canon(FALSE, [i \in 1..Len(digits) |-> digits[Len(digits) + 1 - i]], exp)

DNeg(x) == IF x.coef = <<>> THEN x ELSE [x EXCEPT !.neg = ~x.neg]

MinExp(x, y) == IF x.exp < y.exp THEN x.exp ELSE y.exp

\* coefficient of x at exponent e <= x.exp
Aligned(x, e) == NatShift(x.coef, x.exp - e)

\* -1, 0, 1 as x <, =, > y
DCmp(x, y) ==
    LET e  == MinExp(x, y)
        c  == NatCmp(Aligned(x, e), Aligned(y, e))
    IN  IF x.neg /\ ~y.neg THEN -1
        ELSE IF ~x.neg /\ y.neg THEN 1
        ELSE IF x.neg THEN -c ELSE c

DLt(x, y) == DCmp(x, y) < 0
DGe(x, y) == DCmp(x, y) >= 0
DLe(x, y) == DCmp(x, y) <= 0

\* the exact sum, not yet rounded
DAddExact(x, y) ==
    LET e  == MinExp(x, y)
        ax == Aligned(x, e)
        ay == Aligned(y, e)
        c  == NatCmp(ax, ay)
    IN  IF x.neg = y.neg THEN Canon(x.neg, NatAdd(ax, ay), e)
        ELSE IF c >= 0 THEN Canon(x.neg, NatSub(ax, ay), e)
        ELSE Canon(y.neg, NatSub(ay, ax), e)

\* x + y, x - y, x * y under the context
DAdd(x, y) == LET s == DAddExact(x, y) IN DRound(s.neg, s.coef, s.exp)
DSub(x, y) == DAdd(x, DNeg(y))
DMul(x, y) == DRound(x.neg # y.neg, NatMul(x.coef, y.coef), x.exp + y.exp)

\* x // y (y # 0): the integer part of the quotient, truncated towards zero;
\* decimal raises InvalidOperation when it has more than Prec digits
DivInt(x, y) ==
    LET e == MinExp(x, y)
    IN  NatDiv(Aligned(x, e), Aligned(y, e))

DFloorDiv(x, y) ==
    LET q == DivInt(x, y)
    IN  IF Len(q) > Prec
        THEN [raised |-> "InvalidOperation", value |-> DZero]
        ELSE [raised |-> "none", value |-> Canon(x.neg # y.neg, q, 0)]

(***************************************************************************)
(* mode_config.py: AssetPrice and the price histories                      *)
(***************************************************************************)
\* the dataclass fields of AssetPrice, in declaration order
Fields == <<"BTC", "ETH", "BNB", "SOL", "MKR", "XPR", "ADA">>
FieldSet == {Fields[i] : i \in 1..Len(Fields)}

\* names getattr finds on an AssetPrice instance that are not fields
\* (dunder attributes of the dataclass); their values are not Decimals
OtherAttrs == {"__doc__", "__class__"}

\* Decimal('0.5'), Decimal('0.75')
DHalf == Canon(FALSE, <<5>>, -1)
DThreeQuarters == Canon(FALSE, <<5, 7>>, -2)

\* base_asset_price of RandomAssetPriceHistory.__iter__
BasePrices ==
    [f \in FieldSet |->
        CASE f = "BTC" -> DInt(20000)
          [] f = "ETH" -> DInt(1500)
          [] f = "BNB" -> DInt(300)
          [] f = "SOL" -> DInt(25)
          [] f = "MKR" -> DInt(1200)
          [] f = "XPR" -> DHalf
          [] f = "ADA" -> DHalf]

\* current_prices before the first pull
NoPrices == [f \in FieldSet |-> DZero]

\* price_multiplier: the default range, and a range that holds one value
DefaultMultiplier == "(0.5, 1.5)"
UnitMultiplier == "(1.0, 1.0)"
Multipliers == {DefaultMultiplier, UnitMultiplier}

\* Decimal(self.random.uniform(0.5, 1.5)): the first draws of Random() seeded
\* with 42 (one per field and day: the draws of the second and third day),
\* each the exact decimal expansion of the float drawn
UniformTable == <<
    \* 1.139426798457883638349130706046707928180694580078125
    Dec(<<1,1,3,9,4,2,6,7,9,8,4,5,7,8,8,3,6,3,8,3,4,9,1,3,0,7,0,6,0,4,6,7,0,7,9,2,8,1,8,0,6,9,4,5,8,0,0,7,8,1,2,5>>,
        -51),
    \* 0.52501075522266693607065235482878051698207855224609375
    Dec(<<5,2,5,0,1,0,7,5,5,2,2,2,6,6,6,9,3,6,0,7,0,6,5,2,3,5,4,8,2,8,7,8,0,5,1,6,9,8,2,0,7,8,5,5,2,2,4,6,0,9,3,7,5>>,
        -53),
    \* 0.7750293183691192577811079900129698216915130615234375
    Dec(<<7,7,5,0,2,9,3,1,8,3,6,9,1,1,9,2,5,7,7,8,1,1,0,7,9,9,0,0,1,2,9,6,9,8,2,1,6,9,1,5,1,3,0,6,1,5,2,3,4,3,7,5>>,
        -52),
    \* 0.72321073814882275154758417556877247989177703857421875
    Dec(<<7,2,3,2,1,0,7,3,8,1,4,8,8,2,2,7,5,1,5,4,7,5,8,4,1,7,5,5,6,8,7,7,2,4,7,9,8,9,1,7,7,7,0,3,8,5,7,4,2,1,8,7,5>>,
        -53),
    \* 1.2364712141640123999053457737318240106105804443359375
    Dec(<<1,2,3,6,4,7,1,2,1,4,1,6,4,0,1,2,3,9,9,9,0,5,3,4,5,7,7,3,7,3,1,8,2,4,0,1,0,6,1,0,5,8,0,4,4,4,3,3,5,9,3,7,5>>,
        -52),
    \* 1.1766994874229113055008610899676568806171417236328125
    Dec(<<1,1,7,6,6,9,9,4,8,7,4,2,2,9,1,1,3,0,5,5,0,0,8,6,1,0,8,9,9,6,7,6,5,6,8,8,0,6,1,7,1,4,1,7,2,3,6,3,2,8,1,2,5>>,
        -52),
    \* 1.3921795677048454109581143711693584918975830078125
    Dec(<<1,3,9,2,1,7,9,5,6,7,7,0,4,8,4,5,4,1,0,9,5,8,1,1,4,3,7,1,1,6,9,3,5,8,4,9,1,8,9,7,5,8,3,0,0,7,8,1,2,5>>,
        -49),
    \* 0.58693883262941615175378728963551111519336700439453125
    Dec(<<5,8,6,9,3,8,8,3,2,6,2,9,4,1,6,1,5,1,7,5,3,7,8,7,2,8,9,6,3,5,5,1,1,1,1,5,1,9,3,3,6,7,0,0,4,3,9,4,5,3,1,2,5>>,
        -53),
    \* 0.92192181968527042723593467599130235612392425537109375
    Dec(<<9,2,1,9,2,1,8,1,9,6,8,5,2,7,0,4,2,7,2,3,5,9,3,4,6,7,5,9,9,1,3,0,2,3,5,6,1,2,3,9,2,4,2,5,5,3,7,1,0,9,3,7,5>>,
        -53),
    \* 0.52979721943807034367779351669014431536197662353515625
    Dec(<<5,2,9,7,9,7,2,1,9,4,3,8,0,7,0,3,4,3,6,7,7,7,9,3,5,1,6,6,9,0,1,4,4,3,1,5,3,6,1,9,7,6,6,2,3,5,3,5,1,5,6,2,5>>,
        -53),
    \* 0.71863797480360336322746661608107388019561767578125
    Dec(<<7,1,8,6,3,7,9,7,4,8,0,3,6,0,3,3,6,3,2,2,7,4,6,6,6,1,6,0,8,1,0,7,3,8,8,0,1,9,5,6,1,7,6,7,5,7,8,1,2,5>>,
        -50),
    \* 1.00535528810336227678590148570947349071502685546875
    Dec(<<1,0,0,5,3,5,5,2,8,8,1,0,3,3,6,2,2,7,6,7,8,5,9,0,1,4,8,5,7,0,9,4,7,3,4,9,0,7,1,5,0,2,6,8,5,5,4,6,8,7,5>>,
        -50),
    \* 0.5265359696838636249793808019603602588176727294921875
    Dec(<<5,2,6,5,3,5,9,6,9,6,8,3,8,6,3,6,2,4,9,7,9,3,8,0,8,0,1,9,6,0,3,6,0,2,5,8,8,1,7,6,7,2,7,2,9,4,9,2,1,8,7,5>>,
        -52),
    \* 0.6988376506866484927371629964909516274929046630859375
    Dec(<<6,9,8,8,3,7,6,5,0,6,8,6,6,4,8,4,9,2,7,3,7,1,6,2,9,9,6,4,9,0,9,5,1,6,2,7,4,9,2,9,0,4,6,6,3,0,8,5,9,3,7,5>>,
        -52) >>

\* the same draws of Random() seeded with 7
UniformTable7 == <<
    \* 0.82383276483316236760146011874894611537456512451171875
    Dec(<<8,2,3,8,3,2,7,6,4,8,3,3,1,6,2,3,6,7,6,0,1,4,6,0,1,1,8,7,4,8,9,4,6,1,1,5,3,7,4,5,6,5,1,2,4,5,1,1,7,1,8,7,5>>,
        -53),
    \* 0.650849173924501922527952046948485076427459716796875
    Dec(<<6,5,0,8,4,9,1,7,3,9,2,4,5,0,1,9,2,2,5,2,7,9,5,2,0,4,6,9,4,8,4,8,5,0,7,6,4,2,7,4,5,9,7,1,6,7,9,6,8,7,5>>,
        -51),
    \* 1.15093447303985385588021017611026763916015625
    Dec(<<1,1,5,0,9,3,4,4,7,3,0,3,9,8,5,3,8,5,5,8,8,0,2,1,0,1,7,6,1,1,0,2,6,7,6,3,9,1,6,0,1,5,6,2,5>>,
        -44),
    \* 0.572436286667542759687421494163572788238525390625
    Dec(<<5,7,2,4,3,6,2,8,6,6,6,7,5,4,2,7,5,9,6,8,7,4,2,1,4,9,4,1,6,3,5,7,2,7,8,8,2,3,8,5,2,5,3,9,0,6,2,5>>,
        -48),
    \* 1.035882004306689196937441010959446430206298828125
    Dec(<<1,0,3,5,8,8,2,0,0,4,3,0,6,6,8,9,1,9,6,9,3,7,4,4,1,0,1,0,9,5,9,4,4,6,4,3,0,2,0,6,2,9,8,8,2,8,1,2,5>>,
        -48),
    \* 0.86568891691258553766630257086944766342639923095703125
    Dec(<<8,6,5,6,8,8,9,1,6,9,1,2,5,8,5,5,3,7,6,6,6,3,0,2,5,7,0,8,6,9,4,4,7,6,6,3,4,2,6,3,9,9,2,3,0,9,5,7,0,3,1,2,5>>,
        -53),
    \* 0.5579989247747068059624098168569616973400115966796875
    Dec(<<5,5,7,9,9,8,9,2,4,7,7,4,7,0,6,8,0,5,9,6,2,4,0,9,8,1,6,8,5,6,9,6,1,6,9,7,3,4,0,0,1,1,5,9,6,6,7,9,6,8,7,5>>,
        -52),
    \* 1.00743573318942036820544672082178294658660888671875
    Dec(<<1,0,0,7,4,3,5,7,3,3,1,8,9,4,2,0,3,6,8,2,0,5,4,4,6,7,2,0,8,2,1,7,8,2,9,4,6,5,8,6,6,0,8,8,8,6,7,1,8,7,5>>,
        -50),
    \* 0.53749565844198488040461825221427716314792633056640625
    Dec(<<5,3,7,4,9,5,6,5,8,4,4,1,9,8,4,8,8,0,4,0,4,6,1,8,2,5,2,2,1,4,2,7,7,1,6,3,1,4,7,9,2,6,3,3,0,5,6,6,4,0,6,2,5>>,
        -53),
    \* 0.9336456836623858723811508752987720072269439697265625
    Dec(<<9,3,3,6,4,5,6,8,3,6,6,2,3,8,5,8,7,2,3,8,1,1,5,0,8,7,5,2,9,8,7,7,2,0,0,7,2,2,6,9,4,3,9,6,9,7,2,6,5,6,2,5>>,
        -52),
    \* 0.569855423574618935589342072489671409130096435546875
    Dec(<<5,6,9,8,5,5,4,2,3,5,7,4,6,1,8,9,3,5,5,8,9,3,4,2,0,7,2,4,8,9,6,7,1,4,0,9,1,3,0,0,9,6,4,3,5,5,4,6,8,7,5>>,
        -51),
    \* 0.59071301334386505654805432641296647489070892333984375
    Dec(<<5,9,0,7,1,3,0,1,3,3,4,3,8,6,5,0,5,6,5,4,8,0,5,4,3,2,6,4,1,2,9,6,6,4,7,4,8,9,0,7,0,8,9,2,3,3,3,9,8,4,3,7,5>>,
        -53),
    \* 0.9245191891425139640858787970500998198986053466796875
    Dec(<<9,2,4,5,1,9,1,8,9,1,4,2,5,1,3,9,6,4,0,8,5,8,7,8,7,9,7,0,5,0,0,9,9,8,1,9,8,9,8,6,0,5,3,4,6,6,7,9,6,8,7,5>>,
        -52),
    \* 1.326852124672038168995413798256777226924896240234375
    Dec(<<1,3,2,6,8,5,2,1,2,4,6,7,2,0,3,8,1,6,8,9,9,5,4,1,3,7,9,8,2,5,6,7,7,7,2,2,6,9,2,4,8,9,6,2,4,0,2,3,4,3,7,5>>,
        -51) >>

\* the generator is a fixed function of the seed and of the number of draws
\* made so far; uniform(1.0, 1.0) consumes a draw and returns 1.0
Uniform(seed, mult, draw) ==
    IF mult = UnitMultiplier THEN DInt(1)
    ELSE IF seed = 42 THEN UniformTable[draw + 1]
    ELSE UniformTable7[draw + 1]

FieldIndex(f) == CHOOSE i \in 1..Len(Fields) : Fields[i] = f

\* the dict comprehension of RandomAssetPriceHistory.__iter__: one draw per
\* field, in field order
RandomStep(prev, seed, mult, draws) ==
    [f \in FieldSet |-> DMul(prev[f], Uniform(seed, mult, draws + FieldIndex(f) - 1))]

\* range(30) of RealAssetPriceHistory.__iter__
RealDays == 30

\* what get_crypto_prices can return for the seven tickers
QuoteA == BasePrices
QuoteB == [BasePrices EXCEPT !["BTC"] = DInt(25000), !["XPR"] = DThreeQuarters]
Quotes == {QuoteA, QuoteB}

\* outcome of one get_crypto_prices call: the prices, or an exception of
\* requests.get / response.json / data['price']
FetchOutcomes == [ok : {TRUE}, prices : Quotes] \cup [ok : {FALSE}, prices : {NoPrices}]
NoFetch == [ok |-> TRUE, prices |-> NoPrices]

\* a finite history: an AssetPriceHistory whose __iter__ yields n pairs
BoundedData == <<BasePrices, QuoteB, BasePrices, QuoteB>>

\* the longest bounded history, and the seeds of the engine's random history
MaxLen == 2
Seeds == {42}

\* a RandomAssetPriceHistory with its fields seed and price_multiplier
RandomHistory(seed, mult) == [kind |-> "random", seed |-> seed, mult |-> mult, n |-> 0]

Histories ==
    {RandomHistory(seed, DefaultMultiplier) : seed \in Seeds}
    \cup [kind : {"real"}, seed : {0}, mult : {""}, n : {RealDays}]
    \cup [kind : {"bounded"}, seed : {0}, mult : {""}, n : 0..MaxLen]

\* iter(self.history): a generator that has not run yet
NewGenerator == [pos |-> 0, done |-> FALSE, prev |-> NoPrices, draws |-> 0]

\* a bounded history that yields one pair more than it holds
ExhaustedLate(h, g) ==
    CASE h.kind = "random" -> FALSE
      [] h.kind = "real" -> g.pos >= RealDays
      [] OTHER -> g.pos > h.n

\* a real history that loops once more: range(RealDays + 1)
ExhaustedRealLate(h, g) ==
    CASE h.kind = "random" -> FALSE
      [] h.kind = "real" -> g.pos > RealDays
      [] OTHER -> g.pos >= h.n

\* the loop of __iter__ has no pair left to produce
Exhausted(h, g) ==
    CASE h.kind = "random" -> FALSE
      [] h.kind = "real" -> g.pos >= RealDays
      [] OTHER -> g.pos >= h.n

\* the generator of the random history without its `if day == 0` branch: the
\* first pair is drawn like the others
GenNextNoDayZero(h, g, fetch) ==
    IF g.done
    THEN [out |-> "StopIteration", date |-> 0, prices |-> NoPrices, gen |-> g]
    ELSE IF Exhausted(h, g)
    THEN [out |-> "StopIteration", date |-> 0, prices |-> NoPrices,
          gen |-> [g EXCEPT !.done = TRUE]]
    ELSE IF h.kind = "random"
    THEN LET p == RandomStep(IF g.pos = 0 THEN BasePrices ELSE g.prev,
                             h.seed, h.mult, g.draws)
         IN  [out |-> "yield", date |-> g.pos, prices |-> p,
              gen |-> [pos |-> g.pos + 1, done |-> FALSE, prev |-> p,
                       draws |-> g.draws + Len(Fields)]]
    ELSE IF h.kind = "real"
    THEN IF ~fetch.ok
         THEN [out |-> "RetrievalError", date |-> 0, prices |-> NoPrices,
               gen |-> [g EXCEPT !.done = TRUE]]
         ELSE [out |-> "yield", date |-> 0, prices |-> fetch.prices,
               gen |-> [g EXCEPT !.pos = g.pos + 1]]
    ELSE [out |-> "yield", date |-> g.pos, prices |-> BoundedData[g.pos + 1],
          gen |-> [g EXCEPT !.pos = g.pos + 1]]

\* a generator that a failed fetch leaves running: the next pull fetches again
GenNextRetries(h, g, fetch) ==
    IF g.done
    THEN [out |-> "StopIteration", date |-> 0, prices |-> NoPrices, gen |-> g]
    ELSE IF Exhausted(h, g)
    THEN [out |-> "StopIteration", date |-> 0, prices |-> NoPrices,
          gen |-> [g EXCEPT !.done = TRUE]]
    ELSE IF h.kind = "random"
    THEN LET p == IF g.pos = 0 THEN BasePrices
                  ELSE RandomStep(g.prev, h.seed, h.mult, g.draws)
         IN  [out |-> "yield", date |-> g.pos, prices |-> p,
              gen |-> [pos |-> g.pos + 1, done |-> FALSE, prev |-> p,
                       draws |-> IF g.pos = 0 THEN g.draws
                                 ELSE g.draws + Len(Fields)]]
    ELSE IF h.kind = "real"
    THEN IF ~fetch.ok
         THEN [out |-> "RetrievalError", date |-> 0, prices |-> NoPrices, gen |-> g]
         ELSE [out |-> "yield", date |-> 0, prices |-> fetch.prices,
               gen |-> [g EXCEPT !.pos = g.pos + 1]]
    ELSE [out |-> "yield", date |-> g.pos, prices |-> BoundedData[g.pos + 1],
          gen |-> [g EXCEPT !.pos = g.pos + 1]]

\* next(self.days): the generator runs to its next yield, returns (the
\* StopIteration of next) or raises; a generator that returned or raised is
\* finished and every later next() raises StopIteration
GenNext(h, g, fetch) ==
    IF g.done
    THEN [out |-> "StopIteration", date |-> 0, prices |-> NoPrices, gen |-> g]
    ELSE IF Exhausted(h, g)
    THEN [out |-> "StopIteration", date |-> 0, prices |-> NoPrices,
          gen |-> [g EXCEPT !.done = TRUE]]
    ELSE IF h.kind = "random"
    THEN LET p == IF g.pos = 0 THEN BasePrices
                  ELSE RandomStep(g.prev, h.seed, h.mult, g.draws)
         IN  [out |-> "yield", date |-> g.pos, prices |-> p,
              gen |-> [pos |-> g.pos + 1, done |-> FALSE, prev |-> p,
                       draws |-> IF g.pos = 0 THEN g.draws
                                 ELSE g.draws + Len(Fields)]]
    ELSE IF h.kind = "real"
    THEN IF ~fetch.ok
         THEN [out |-> "RetrievalError", date |-> 0, prices |-> NoPrices,
               gen |-> [g EXCEPT !.done = TRUE]]
         ELSE [out |-> "yield", date |-> 0, prices |-> fetch.prices,
               gen |-> [g EXCEPT !.pos = g.pos + 1]]
    ELSE [out |-> "yield", date |-> g.pos, prices |-> BoundedData[g.pos + 1],
          gen |-> [g EXCEPT !.pos = g.pos + 1]]

(***************************************************************************)
(* trading_simulator.py: PortfolioSimulator                                *)
(***************************************************************************)
VARIABLES
    phase,          \* "new" (fields set, __post_init__ not run), "ready", "failed"
    history,        \* self.history
    days,           \* self.days, the generator over the history
    cash,           \* self.cash
    assets,         \* self.assets: defaultdict(int), as its items in insertion order
    day_count,      \* self.day_count
    current_date,   \* self.current_date
    current_prices, \* self.current_prices
    initial_value,  \* self.initial_value
    loop,           \* where run() is: "idle", "menu", "buy", "sell", "done", "crashed"
    owned,          \* owned_assets of the sell_action in progress
    last,           \* the last call made (see Call)
    ended,          \* a next_day call has found the history exhausted
    trades,         \* number of buy/sell calls that went through
    walk            \* two RandomAssetPriceHistory objects iterated side by side

vars == <<phase, history, days, cash, assets, day_count, current_date,
          current_prices, initial_value, loop, owned, last, ended, trades, walk>>

\* ---- the defaultdict -------------------------------------------------------
HasKey(a, k) == \E i \in 1..Len(a) : a[i].k = k

\* the stored quantity of a key that is present
Stored(a, k) == a[CHOOSE i \in 1..Len(a) : a[i].k = k].q

\* reading a[k] inserts k with int() = 0 when it is missing
Touch(a, k) == IF HasKey(a, k) THEN a ELSE Append(a, [k |-> k, q |-> 0])

SetItem(a, k, v) ==
    LET b == Touch(a, k)
    IN  SubSeq([i \in 1..Len(b) |-> IF b[i].k = k THEN [k |-> k, q |-> v] ELSE b[i]],
               1, Len(b))

\* the quantity the portfolio holds of k (0 for a key never inserted)
Holding(a, k) == IF HasKey(a, k) THEN Stored(a, k) ELSE 0

RECURSIVE TouchAll(_, _)
TouchAll(a, ks) == IF ks = <<>> THEN a ELSE TouchAll(Touch(a, Head(ks)), Tail(ks))

\* ---- getattr(self.current_prices, asset) -----------------------------------
GetAttr(prices, asset) ==
    IF asset \in FieldSet THEN [kind |-> "Decimal", value |-> prices[asset]]
    ELSE IF asset \in OtherAttrs THEN [kind |-> "object", value |-> DZero]
    ELSE [kind |-> "AttributeError", value |-> DZero]

\* ---- queries ---------------------------------------------------------------
\* asset_values: the list, and the dict after the reads of the comprehension
AssetValuesList(prices, a) ==
    LET b    == TouchAll(a, Fields)
        kept == SelectSeq(Fields, LAMBDA f : Stored(b, f) # 0)
    IN  SubSeq([i \in 1..Len(kept) |->
                   <<kept[i], Stored(b, kept[i]),
                     DMul(prices[kept[i]], DInt(Stored(b, kept[i])))>>],
               1, Len(kept))

AssetValuesDict(a) == TouchAll(a, Fields)

\* sum(price for _, _, price in ...): 0 + v1 + v2 + ...
RECURSIVE SumFrom(_, _)
SumFrom(acc, l) == IF l = <<>> THEN acc ELSE SumFrom(DAdd(acc, Head(l)[3]), Tail(l))

Value(c, prices, a) == DAdd(c, SumFrom(DZero, AssetValuesList(prices, a)))

Profit(c, prices, a, iv) == DSub(Value(c, prices, a), iv)

\* ---- buy and sell: outcome and the fields written -------------------------
\* buy without its `if self.cash < cost` test
BuyOutcomeNoCashCheck(c, a, prices, asset, amount) ==
    LET got  == GetAttr(prices, asset)
        cost == DMul(got.value, DInt(amount))
    IN  IF got.kind = "AttributeError"
        THEN [raised |-> "WrongAssetName", cash |-> c, assets |-> a]
        ELSE IF got.kind = "object"
        THEN [raised |-> "TypeError", cash |-> c, assets |-> a]
        ELSE [raised |-> "none", cash |-> DSub(c, cost),
              assets |-> SetItem(a, asset, Holding(a, asset) + amount)]

BuyOutcome(c, a, prices, asset, amount) ==
    LET got  == GetAttr(prices, asset)
        cost == DMul(got.value, DInt(amount))
    IN  IF got.kind = "AttributeError"
        THEN [raised |-> "WrongAssetName", cash |-> c, assets |-> a]
        ELSE IF got.kind = "object"
        THEN [raised |-> "TypeError", cash |-> c, assets |-> a]
        ELSE IF DLt(c, cost)
        THEN [raised |-> "NotEnoughCash", cash |-> c, assets |-> a]
        ELSE [raised |-> "none", cash |-> DSub(c, cost),
              assets |-> SetItem(a, asset, Holding(a, asset) + amount)]

SellOutcome(c, a, prices, asset, amount) ==
    LET got == GetAttr(prices, asset)
    IN  IF ~HasKey(a, asset)
        THEN [raised |-> "WrongAssetName", cash |-> c, assets |-> a]
        ELSE IF Stored(a, asset) < amount
        THEN [raised |-> "NotEnoughAsset", cash |-> c, assets |-> a]
        ELSE IF got.kind = "AttributeError"
        THEN [raised |-> "WrongAssetName", cash |-> c, assets |-> a]
        ELSE IF got.kind = "object"
        THEN [raised |-> "TypeError", cash |-> c, assets |-> a]
        ELSE [raised |-> "none", cash |-> DAdd(c, DMul(got.value, DInt(amount))),
              assets |-> SetItem(a, asset, Stored(a, asset) - amount)]

(***************************************************************************)
(* The inputs the model draws from                                         *)
(***************************************************************************)
Amounts == {-1, 0, 1}
AssetNames == {"BTC", "XPR", "DOGE", "__doc__"}

\* Decimal('9999999999999999999999999999'): 28 digits, the context precision
AllNines == Canon(FALSE, [i \in 1..Prec |-> 9], 0)
\* Decimal('10000000000000000000000000001'): 29 digits, one more than the
\* context keeps (the constructor of Decimal does not round)
OverPrec == [neg |-> FALSE, coef |-> <<1>> \o [i \in 1..Prec - 1 |-> 0] \o <<1>>, exp |-> 0]
InitialCash == {DInt(-1), DHalf, DInt(100000), AllNines, OverPrec}

\* quantities that buy and sell document: positive integers
ValidAmounts == {1, 2}

MaxTrades == 2
MaxDay == 2

\* a call as `last` records it: what was called, the exception it raised
\* ("none" when it returned), and the engine's fields as the call found them
Call(op, asset, amount, raised) ==
    [op |-> op, asset |-> asset, amount |-> amount, raised |-> raised,
     cash0 |-> cash, assets0 |-> assets, day0 |-> day_count,
     date0 |-> current_date, prices0 |-> current_prices, value0 |-> initial_value]

\* no RandomAssetPriceHistory constructed yet
NoWalk == [made |-> FALSE, seed |-> 0, mult |-> "", src |-> <<>>]

Init ==
    /\ phase = "new"
    /\ history \in Histories
    /\ days = NewGenerator
    /\ cash \in InitialCash
    /\ assets = <<>>
    /\ day_count = 0
    /\ current_date = 0
    /\ current_prices = NoPrices
    /\ initial_value = DZero
    /\ loop = "idle"
    /\ owned = <<>>
    /\ last = Call("none", "", 0, "none")
    /\ ended = FALSE
    /\ trades = 0
    /\ walk = NoWalk

\* the fetches a pull of the history can see: only the real history fetches
Fetches == IF history.kind = "real" THEN FetchOutcomes ELSE {NoFetch}

\* __post_init__
PostInit(fetch) ==
    /\ phase = "new"
    /\ \E r \in {GenNext(history, NewGenerator, fetch)} :
           IF DLt(cash, DZero)
           THEN /\ phase' = "failed"
                /\ last' = Call("__post_init__", "", 0, "NotEnoughCash")
                /\ UNCHANGED <<days, assets, day_count, current_date,
                               current_prices, initial_value>>
           ELSE IF r.out # "yield"
           THEN /\ phase' = "failed"
                /\ days' = r.gen
                /\ last' = Call("__post_init__", "", 0, r.out)
                /\ UNCHANGED <<assets, day_count, current_date,
                               current_prices, initial_value>>
           ELSE /\ phase' = "ready"
                /\ days' = r.gen
                /\ current_date' = r.date
                /\ current_prices' = r.prices
                /\ day_count' = day_count + 1
                /\ initial_value' = Value(cash, r.prices, assets)
                /\ assets' = AssetValuesDict(assets)
                /\ last' = Call("__post_init__", "", 0, "none")
    /\ UNCHANGED <<walk, history, cash, loop, owned, ended, trades>>

\* next_day with `self.day_count += 1` moved before the pull
NextDayCountsFirst(r) ==
    /\ days' = r.gen
    /\ day_count' = day_count + 1
    /\ IF r.out = "yield"
       THEN /\ current_date' = r.date
            /\ current_prices' = r.prices
       ELSE UNCHANGED <<current_date, current_prices>>
    /\ ended' = (ended \/ r.out = "StopIteration")

\* the fields next_day writes, given the outcome r of next(self.days)
NextDayEffect(r) ==
    /\ days' = r.gen
    /\ IF r.out = "yield"
       THEN /\ current_date' = r.date
            /\ current_prices' = r.prices
            /\ day_count' = day_count + 1
       ELSE UNCHANGED <<current_date, current_prices, day_count>>
    /\ ended' = (ended \/ r.out = "StopIteration")

\* the random history never ends and the real one is long: the engine is
\* followed through the first round of draws of the random one (its prices
\* then carry all Prec digits), and through the real one up to MaxDay
MayPull ==
    CASE history.kind = "random" -> days.draws < Len(Fields)
      [] history.kind = "real" -> day_count < MaxDay
      [] OTHER -> TRUE

\* next_day()
NextDayCall(fetch) ==
    /\ phase = "ready"
    /\ loop = "idle"
    /\ \E r \in {GenNext(history, days, fetch)} :
           /\ NextDayEffect(r)
           /\ last' = Call("next_day", "", 0, IF r.out = "yield" THEN "none" ELSE r.out)
    /\ UNCHANGED <<walk, phase, history, cash, assets, initial_value, loop, owned, trades>>

\* next_day() as far as the model follows the history
NextDay(fetch) == MayPull /\ NextDayCall(fetch)

\* buy(asset, amount)
Buy(asset, amount) ==
    /\ phase = "ready"
    /\ loop = "idle"
    /\ trades < MaxTrades
    /\ \E r \in {BuyOutcome(cash, assets, current_prices, asset, amount)} :
           /\ cash' = r.cash
           /\ assets' = r.assets
           /\ trades' = IF r.raised = "none" THEN trades + 1 ELSE trades
           /\ last' = Call("buy", asset, amount, r.raised)
    /\ UNCHANGED <<walk, phase, history, days, day_count, current_date, current_prices,
                   initial_value, loop, owned, ended>>

\* sell(asset, amount)
Sell(asset, amount) ==
    /\ phase = "ready"
    /\ loop = "idle"
    /\ trades < MaxTrades
    /\ \E r \in {SellOutcome(cash, assets, current_prices, asset, amount)} :
           /\ cash' = r.cash
           /\ assets' = r.assets
           /\ trades' = IF r.raised = "none" THEN trades + 1 ELSE trades
           /\ last' = Call("sell", asset, amount, r.raised)
    /\ UNCHANGED <<walk, phase, history, days, day_count, current_date, current_prices,
                   initial_value, loop, owned, ended>>

\* the properties asset_values, value and profit
ReadAssetValues ==
    /\ phase = "ready"
    /\ loop = "idle"
    /\ assets' = AssetValuesDict(assets)
    /\ last' = Call("asset_values", "", 0, "none")
    /\ UNCHANGED <<walk, phase, history, days, cash, day_count, current_date, current_prices,
                   initial_value, loop, owned, ended, trades>>

ReadValue ==
    /\ phase = "ready"
    /\ loop = "idle"
    /\ assets' = AssetValuesDict(assets)
    /\ last' = Call("value", "", 0, "none")
    /\ UNCHANGED <<walk, phase, history, days, cash, day_count, current_date, current_prices,
                   initial_value, loop, owned, ended, trades>>

ReadProfit ==
    /\ phase = "ready"
    /\ loop = "idle"
    /\ assets' = AssetValuesDict(assets)
    /\ last' = Call("profit", "", 0, "none")
    /\ UNCHANGED <<walk, phase, history, days, cash, day_count, current_date, current_prices,
                   initial_value, loop, owned, ended, trades>>

(***************************************************************************)
(* run(): the interactive loop. A step runs from one input() to the next.  *)
(***************************************************************************)
\* what the user types: a menu choice, the number of an asset in the list
\* shown (1 is BTC, 2 is ETH, 6 is XPR; 0 is out of range), an amount
MenuChoices == {"1", "2", "3", "4", "x"}
Indexes == {0, 1, 2, 6}
PromptAmounts == Amounts \cup {2}

\* print_summary and print_result read asset_values, value and profit
PrintSummary(a) == AssetValuesDict(a)

\* owned_assets of sell_action: the items with a positive quantity
OwnedAssets(a) == SelectSeq(a, LAMBDA it : it.q > 0)

\* run() up to the first prompt of user_action
Run ==
    /\ phase = "ready"
    /\ loop = "idle"
    /\ loop' = "menu"
    /\ assets' = PrintSummary(assets)
    /\ UNCHANGED <<walk, phase, history, days, cash, day_count, current_date, current_prices,
                   initial_value, owned, last, ended, trades>>

\* user_action on the menu input `action`, up to the next prompt
UserAction(action, fetch) ==
    /\ loop = "menu"
    /\ IF action = "1"
       THEN /\ loop' = "buy"
            /\ UNCHANGED <<days, day_count, current_date, current_prices, ended,
                           assets, owned, last>>
       ELSE IF action = "2"
       THEN /\ owned' = OwnedAssets(assets)
            /\ loop' = IF owned' = <<>> THEN "menu" ELSE "sell"
            /\ assets' = IF owned' = <<>> THEN PrintSummary(assets) ELSE assets
            /\ UNCHANGED <<days, day_count, current_date, current_prices, ended, last>>
       ELSE IF action = "3"
       THEN /\ MayPull
            /\ \E r \in {GenNext(history, days, fetch)} :
                   /\ NextDayEffect(r)
                   /\ last' = Call("next_day", "", 0,
                                   IF r.out = "yield" THEN "none" ELSE r.out)
                   /\ loop' = CASE r.out = "yield" -> "menu"
                                [] r.out = "StopIteration" -> "done"
                                [] OTHER -> "crashed"
                   /\ assets' = IF r.out = "RetrievalError" THEN assets
                                ELSE PrintSummary(assets)
            /\ UNCHANGED owned
       ELSE IF action = "4"
       THEN /\ loop' = "done"
            /\ assets' = PrintSummary(assets)
            /\ UNCHANGED <<days, day_count, current_date, current_prices, ended,
                           owned, last>>
       ELSE /\ assets' = PrintSummary(assets)
            /\ UNCHANGED <<days, day_count, current_date, current_prices, ended,
                           loop, owned, last>>
    /\ UNCHANGED <<walk, phase, history, cash, initial_value, trades>>

\* buy_action on the inputs `idx` and `amount` (the second is read only when
\* the first passes), up to the next prompt
BuyAction(idx, amount) ==
    /\ loop = "buy"
    /\ trades < MaxTrades
    /\ IF ~(1 <= idx /\ idx <= Len(Fields))
       THEN UNCHANGED <<cash, assets, last, loop, trades>>
       ELSE \E asset \in {Fields[idx]} :
            \E max_amount \in {DFloorDiv(cash, current_prices[asset])} :
                IF max_amount.raised # "none"
                THEN /\ loop' = "crashed"
                     /\ UNCHANGED <<cash, assets, last, trades>>
                ELSE IF max_amount.value = DZero
                THEN /\ loop' = "menu"
                     /\ assets' = PrintSummary(assets)
                     /\ UNCHANGED <<cash, last, trades>>
                ELSE IF DLt(max_amount.value, DInt(amount))
                THEN UNCHANGED <<cash, assets, last, loop, trades>>
                ELSE \E r \in {BuyOutcome(cash, assets, current_prices, asset, amount)} :
                         /\ cash' = r.cash
                         /\ assets' = IF r.raised = "none" THEN PrintSummary(r.assets)
                                      ELSE r.assets
                         /\ trades' = IF r.raised = "none" THEN trades + 1 ELSE trades
                         /\ last' = Call("buy", asset, amount, r.raised)
                         /\ loop' = CASE r.raised = "none" -> "menu"
                                      [] r.raised \in {"WrongAssetName", "NotEnoughCash"}
                                             -> "buy"
                                      [] OTHER -> "crashed"
    /\ UNCHANGED <<walk, phase, history, days, day_count, current_date, current_prices,
                   initial_value, owned, ended>>

\* sell_action on the inputs `idx` and `amount`, up to the next prompt
SellAction(idx, amount) ==
    /\ loop = "sell"
    /\ trades < MaxTrades
    /\ IF ~(1 <= idx /\ idx <= Len(owned))
       THEN UNCHANGED <<cash, assets, last, loop, trades>>
       ELSE LET asset    == owned[idx].k
                quantity == owned[idx].q
            IN  IF amount > quantity
                THEN UNCHANGED <<cash, assets, last, loop, trades>>
                ELSE \E r \in {SellOutcome(cash, assets, current_prices, asset, amount)} :
                         /\ cash' = r.cash
                         /\ assets' = IF r.raised = "none" THEN PrintSummary(r.assets)
                                      ELSE r.assets
                         /\ trades' = IF r.raised = "none" THEN trades + 1 ELSE trades
                         /\ last' = Call("sell", asset, amount, r.raised)
                         /\ loop' = CASE r.raised = "none" -> "menu"
                                      [] r.raised \in {"WrongAssetName", "NotEnoughAsset"}
                                             -> "sell"
                                      [] OTHER -> "crashed"
    /\ UNCHANGED <<walk, phase, history, days, day_count, current_date, current_prices,
                   initial_value, owned, ended>>


Next ==
    \/ \E fetch \in Fetches : PostInit(fetch)
    \/ \E fetch \in Fetches : NextDay(fetch)
    \/ \E asset \in AssetNames, amount \in Amounts : Buy(asset, amount)
    \/ \E asset \in AssetNames, amount \in Amounts : Sell(asset, amount)
    \/ ReadAssetValues
    \/ ReadValue
    \/ ReadProfit

Spec == Init /\ [][Next]_vars

\* the same engine called only with the quantities buy and sell document
NextValid ==
    \/ \E fetch \in Fetches : PostInit(fetch)
    \/ \E fetch \in Fetches : NextDay(fetch)
    \/ \E asset \in AssetNames, amount \in ValidAmounts : Buy(asset, amount)
    \/ \E asset \in AssetNames, amount \in ValidAmounts : Sell(asset, amount)
    \/ ReadAssetValues
    \/ ReadValue
    \/ ReadProfit

SpecValid == Init /\ [][NextValid]_vars

\* the engine driven through run() alone
NextCli ==
    \/ \E fetch \in Fetches : PostInit(fetch)
    \/ Run
    \/ \E action \in MenuChoices, fetch \in Fetches : UserAction(action, fetch)
    \/ \E idx \in Indexes, amount \in PromptAmounts : BuyAction(idx, amount)
    \/ \E idx \in Indexes, amount \in PromptAmounts : SellAction(idx, amount)

SpecCli == Init /\ [][NextCli]_vars

\* the engine on the real history, followed day by day to the end of the
\* history (no trading)
InitLong ==
    /\ Init
    /\ history.kind = "real"
    /\ cash = DInt(100000)

NextLong ==
    \/ \E fetch \in Fetches : PostInit(fetch)
    \/ \E fetch \in Fetches : NextDayCall(fetch)

SpecLong == InitLong /\ [][NextLong]_vars

(***************************************************************************)
(* RandomAssetPriceHistory on its own: two objects built with the same     *)
(* seed and price_multiplier, each iterated (and iterated again) by a      *)
(* caller.  The Random of an object is seeded once, in __post_init__, and  *)
(* every iteration of the object draws from it; `today` is read from the   *)
(* clock when a generator starts running.                                  *)
(***************************************************************************)
WalkSeeds == {42, 7}

\* date.today() as a generator may find it: a day, or the day after
Clock == {0, 1}

\* the iter() calls followed on one object
MaxIters == 2

\* a RandomAssetPriceHistory after __post_init__: no iteration yet
\*   iters  the number of iter() calls made on it
\*   gen    the generator of the last iter(); gen.draws counts the draws made
\*          from self.random
\*   today  `today` of that generator
\*   start  `today` of the first generator
\*   first  the pairs the first generator has yielded
\*   pull   the last next(): the generator's number and position before it,
\*          the pair yielded, the draws made before and after it
NewSource ==
    [iters |-> 0, gen |-> NewGenerator, today |-> 0, start |-> 0, first |-> <<>>,
     pull |-> [iter |-> 0, pos |-> 0, date |-> 0, prices |-> NoPrices,
               draws0 |-> 0, draws1 |-> 0]]

Sources == {1, 2}

\* RandomAssetPriceHistory(price_multiplier=mult, seed=seed), twice
WalkCreate(seed, mult) ==
    /\ ~walk.made
    /\ walk' = [made |-> TRUE, seed |-> seed, mult |-> mult,
                src |-> <<NewSource, NewSource>>]
    /\ UNCHANGED <<phase, history, days, cash, assets, day_count, current_date,
                   current_prices, initial_value, loop, owned, last, ended, trades>>

\* iter(source): a new generator; the object's Random is left as it is
WalkIter(s) ==
    /\ walk.made
    /\ walk.src[s].iters < MaxIters
    /\ walk' = [walk EXCEPT !.src[s].iters = @ + 1,
                            !.src[s].gen = [NewGenerator EXCEPT !.draws = walk.src[s].gen.draws]]
    /\ UNCHANGED <<phase, history, days, cash, assets, day_count, current_date,
                   current_prices, initial_value, loop, owned, last, ended, trades>>

\* the source s after next() on its generator gave r; the generator reads
\* the clock (`today`) when it starts running
PullEffect(s, today, r) ==
    LET src == walk.src[s]
        t   == IF src.gen.pos = 0 THEN today ELSE src.today
    IN  [src EXCEPT !.gen = r.gen,
                    !.today = t,
                    !.start = IF src.iters = 1 /\ src.gen.pos = 0 THEN t ELSE @,
                    !.first = IF src.iters = 1
                              THEN Append(@, [date |-> t + r.date, prices |-> r.prices])
                              ELSE @,
                    !.pull = [iter |-> src.iters, pos |-> src.gen.pos,
                              date |-> t + r.date, prices |-> r.prices,
                              draws0 |-> src.gen.draws, draws1 |-> r.gen.draws]]

\* next(generator) on source s, as long as the tables hold the draws; a
\* generator that is running does not read the clock again
WalkPull(s, today) ==
    /\ walk.made
    /\ walk.src[s].iters > 0
    /\ \/ walk.src[s].gen.pos = 0
       \/ /\ today = walk.src[s].today
          /\ walk.src[s].gen.draws + Len(Fields) <= Len(UniformTable)
    /\ \E r \in {GenNext(RandomHistory(walk.seed, walk.mult), walk.src[s].gen, NoFetch)} :
           walk' = [walk EXCEPT !.src[s] = PullEffect(s, today, r)]
    /\ UNCHANGED <<phase, history, days, cash, assets, day_count, current_date,
                   current_prices, initial_value, loop, owned, last, ended, trades>>

InitWalk ==
    /\ Init
    /\ history = RandomHistory(42, DefaultMultiplier)
    /\ cash = DInt(100000)

NextWalk ==
    \/ \E seed \in WalkSeeds, mult \in Multipliers : WalkCreate(seed, mult)
    \/ \E s \in Sources : WalkIter(s)
    \/ \E s \in Sources, today \in Clock : WalkPull(s, today)

SpecWalk == InitWalk /\ [][NextWalk]_vars

(***************************************************************************)
(* Properties                                                              *)
(***************************************************************************)
\* price * q as a number: the product with no rounding applied
ExactProduct(price, q) ==
    Canon(price.neg # (q < 0), NatMul(price.coef, NatOfInt(IF q < 0 THEN -q ELSE q)),
          price.exp)

\* x = y + z as numbers, with no rounding applied
IsExactSum(x, y, z) == x = DAddExact(y, z)

NonNegative ==
    /\ DGe(cash, DZero)
    /\ \A i \in 1..Len(assets) : assets[i].q >= 0

\* the last call left cash and the holdings as it found them
CashAndAssetsKept == cash = last.cash0 /\ assets = last.assets0

\* the last call changed the holding of no field but possibly `asset`
OtherHoldingsKept(asset) ==
    \A f \in FieldSet \ {asset} : Holding(assets, f) = Holding(last.assets0, f)

\* C1: from a non-negative initial cash and no holdings, after every call of
\* a run of buy / sell / next_day whose quantities are all positive (rejected
\* calls included), cash >= 0 and every holding >= 0.
C1_NonNegativeOnValidRuns == phase = "ready" => NonNegative

\* C1 witness: a buy that spends all the cash, so cash is exactly 0
C1_SpentAllCash ==
    /\ phase = "ready"
    /\ last.op = "buy" /\ last.raised = "none" /\ last.amount > 0
    /\ ~DLe(last.cash0, DZero)
    /\ cash = DZero

\* C2: cash >= 0 and every holding >= 0 after every operation, whatever
\* integer quantity (positive, zero or negative) buy and sell are given.
C2_NonNegativeAnyQuantity ==
    (phase = "ready" /\ last.op \in {"buy", "sell"}) => NonNegative

\* C3: for a tracked symbol and q > 0, buy fails with NotEnoughCash exactly
\* when cash < price * q, and then leaves cash, holdings, snapshot and
\* day_count unchanged; otherwise it succeeds and changes exactly cash by
\* -price * q and the symbol's holding by +q.
C3_BuyContract ==
    (last.op = "buy" /\ last.asset \in FieldSet /\ last.amount > 0) =>
        LET cost == ExactProduct(last.prices0[last.asset], last.amount)
        IN  /\ current_prices = last.prices0
            /\ day_count = last.day0
            /\ IF DLt(last.cash0, cost)
               THEN last.raised = "NotEnoughCash" /\ CashAndAssetsKept
               ELSE /\ last.raised = "none"
                    /\ IsExactSum(last.cash0, cash, cost)
                    /\ Holding(assets, last.asset)
                           = Holding(last.assets0, last.asset) + last.amount
                    /\ OtherHoldingsKept(last.asset)

\* C4: after construction, sell of a tracked symbol with q > 0 fails with
\* NotEnoughAsset (not WrongAssetName) exactly when the holding is below q,
\* also for a symbol never bought, and then leaves cash and holdings
\* unchanged; otherwise it succeeds and changes exactly cash by +price * q
\* and the symbol's holding by -q.
C4_SellContract ==
    (last.op = "sell" /\ last.asset \in FieldSet /\ last.amount > 0) =>
        LET gain == ExactProduct(last.prices0[last.asset], last.amount)
        IN  IF Holding(last.assets0, last.asset) < last.amount
            THEN last.raised = "NotEnoughAsset" /\ CashAndAssetsKept
            ELSE /\ last.raised = "none"
                 /\ IsExactSum(cash, last.cash0, gain)
                 /\ Holding(assets, last.asset)
                        = Holding(last.assets0, last.asset) - last.amount
                 /\ OtherHoldingsKept(last.asset)

\* C5: buy and sell of a symbol outside the tracked set fail with
\* WrongAssetName and leave cash and holdings unchanged (no entry is added
\* for the symbol).
C5_UntrackedSymbolRejected ==
    (last.op \in {"buy", "sell"} /\ last.asset \notin FieldSet) =>
        /\ last.raised = "WrongAssetName"
        /\ CashAndAssetsKept

\* C6: buy of a tracked symbol with a quantity that is not positive (0 or
\* negative) fails with WrongAssetName and leaves cash and holdings unchanged.
C6_NonPositiveQuantityRejected ==
    (last.op = "buy" /\ last.asset \in FieldSet /\ last.amount <= 0) =>
        /\ last.raised = "WrongAssetName"
        /\ CashAndAssetsKept

\* C7: when buy(symbol, q) of a tracked symbol with q > 0 succeeds, a
\* sell(symbol, q) made right after it (same day, same price) succeeds and
\* returns cash and the symbol's holding to their values before the buy.
C7_BuyThenSellRestores ==
    [][(/\ last.op = "buy" /\ last.raised = "none"
        /\ last.asset \in FieldSet /\ last.amount > 0
        /\ last'.op = "sell"
        /\ last'.asset = last.asset /\ last'.amount = last.amount)
       => /\ last'.raised = "none"
          /\ cash' = last.cash0
          /\ Holding(assets', last.asset) = Holding(last.assets0, last.asset)]_vars

\* C8: on a bounded history of n >= 1 pairs construction succeeds, a
\* next_day call succeeds exactly while fewer than n pairs were pulled (the
\* first n-1 calls) and the n-th raises StopIteration; day_count never
\* exceeds n.
C8_BoundedHistoryEnds ==
    (history.kind = "bounded" /\ history.n >= 1) =>
        /\ phase = "failed" => last.raised = "NotEnoughCash"
        /\ day_count <= history.n
        /\ last.op = "next_day" =>
               IF last.day0 < history.n
               THEN last.raised = "none" /\ day_count = last.day0 + 1
               ELSE last.raised = "StopIteration" /\ day_count = history.n

\* C8 witness: a history of two or more pairs whose last next_day failed
\* after all the earlier ones succeeded
C8_LastPairPassed ==
    /\ history.kind = "bounded" /\ history.n >= 2
    /\ last.op = "next_day" /\ last.raised = "StopIteration"
    /\ day_count = history.n

\* the pair the history produces after the one pulled as day number d
IsNextPair(d, prev, date, prices) ==
    CASE history.kind = "bounded" -> date = d /\ prices = BoundedData[d + 1]
      [] history.kind = "random" ->
             /\ date = d
             /\ prices = RandomStep(prev, history.seed, history.mult, Len(Fields) * (d - 1))
      [] OTHER -> prices \in Quotes

\* C9: next_day never changes cash, holdings or initial_value; when it
\* succeeds it replaces current_date / current_prices by the next pair of
\* the history and adds exactly 1 to day_count; when it fails (history
\* exhausted, or a fetch error) it leaves current_date, current_prices and
\* day_count unchanged as well.
C9_NextDayFrame ==
    last.op = "next_day" =>
        /\ CashAndAssetsKept
        /\ initial_value = last.value0
        /\ IF last.raised = "none"
           THEN /\ day_count = last.day0 + 1
                /\ IsNextPair(last.day0, last.prices0, current_date, current_prices)
           ELSE /\ day_count = last.day0
                /\ current_date = last.date0
                /\ current_prices = last.prices0

\* C9 witness: a next_day that failed on a fetch error while holding assets
C9_FetchFailedWhileHolding ==
    /\ last.op = "next_day" /\ last.raised = "RetrievalError"
    /\ \E i \in 1..Len(assets) : assets[i].q > 0

\* C10: once a next_day has failed on the exhausted history, every later
\* buy, sell and next_day fails and changes no state.
C10_EndedIsTerminal ==
    (ended /\ last.op \in {"buy", "sell", "next_day"}) =>
        /\ last.raised # "none"
        /\ CashAndAssetsKept
        /\ day_count = last.day0

\* the first pair of the history
IsFirstPair(date, prices) ==
    CASE history.kind = "bounded" -> date = 0 /\ prices = BoundedData[1]
      [] history.kind = "random" -> date = 0 /\ prices = BasePrices
      [] OTHER -> prices \in Quotes

\* C11: construction with cash < 0 raises NotEnoughCash and pulls nothing
\* from the history; with a history that yields no pair (none to yield, or
\* its first fetch fails) it fails; otherwise it gives an engine with
\* day_count = 1, cash as given, every holding 0, the history's first pair as
\* current prices, and initial_value equal to the cash given.
C11_Construction ==
    last.op = "__post_init__" =>
        /\ DLt(last.cash0, DZero) =>
               /\ phase = "failed" /\ last.raised = "NotEnoughCash"
               /\ days = NewGenerator
        /\ (DGe(last.cash0, DZero) /\ Exhausted(history, NewGenerator)) =>
               phase = "failed" /\ last.raised = "StopIteration"
        /\ (DGe(last.cash0, DZero) /\ ~Exhausted(history, NewGenerator)
              /\ last.raised # "none") =>
               /\ phase = "failed"
               /\ history.kind = "real" /\ last.raised = "RetrievalError"
        /\ last.raised = "none" =>
               /\ phase = "ready"
               /\ day_count = 1
               /\ cash = last.cash0
               /\ \A f \in FieldSet : Holding(assets, f) = 0
               /\ IsFirstPair(current_date, current_prices)
               /\ initial_value = cash

\* C12: construction sets initial_value to the cash given, and no call made
\* on the engine afterwards (buy, sell, next_day, asset_values, value, profit)
\* changes it: in every state of the engine initial_value is the cash it was
\* constructed with.
C12_InitialValueFixed ==
    [][/\ (phase = "new" /\ phase' = "ready") => initial_value' = cash
       /\ phase = "ready" => initial_value' = initial_value]_vars

\* cash plus the sum over the fields of holding * price, with no rounding
RECURSIVE ExactTotal(_, _, _, _)
ExactTotal(c, prices, a, i) ==
    IF i = 0 THEN c
    ELSE DAddExact(ExactTotal(c, prices, a, i - 1),
                   ExactProduct(prices[Fields[i]], Holding(a, Fields[i])))

\* C13: whenever value or profit is read, value is cash plus the sum over
\* the fields of holding * current price, and profit is value minus
\* initial_value; from cash 100000, buying 2 BTC at 20000 and selling 1 after
\* the price moved to 25000 leaves cash 85000, 1 BTC, value 110000 and profit
\* 10000.
C13_ValueAndProfit ==
    /\ (phase = "ready" /\ last.op \in {"value", "profit"}) =>
           LET v == Value(cash, current_prices, assets)
           IN  /\ v = ExactTotal(cash, current_prices, assets, Len(Fields))
               /\ Profit(cash, current_prices, assets, initial_value)
                      = DAddExact(v, DNeg(initial_value))
    /\ (/\ history.kind = "bounded" /\ initial_value = DInt(100000)
        /\ last.op = "sell" /\ last.asset = "BTC" /\ last.amount = 1
        /\ last.raised = "none" /\ last.cash0 = DInt(60000)
        /\ Holding(last.assets0, "BTC") = 2 /\ Holding(assets, "XPR") = 0
        /\ current_prices["BTC"] = DInt(25000)) =>
           /\ cash = DInt(85000)
           /\ Holding(assets, "BTC") = 1
           /\ Value(cash, current_prices, assets) = DInt(110000)
           /\ Profit(cash, current_prices, assets, initial_value) = DInt(10000)

\* the pairs both first generators have yielded so far
Common == 1..(IF Len(walk.src[1].first) < Len(walk.src[2].first)
              THEN Len(walk.src[1].first) ELSE Len(walk.src[2].first))

\* pair i of a first generator is pair i - 1 multiplied field by field by
\* the draws 7 (i - 2) + 1 .. 7 (i - 1) of the seed, taken in field order
DrawnInFieldOrder(s) ==
    \A i \in 2..Len(walk.src[s].first) :
        walk.src[s].first[i].prices =
            [f \in FieldSet |->
                DMul(walk.src[s].first[i - 1].prices[f],
                     Uniform(walk.seed, walk.mult,
                             Len(Fields) * (i - 2) + FieldIndex(f) - 1))]

\* C14: two RandomAssetPriceHistory objects with the same seed and
\* price_multiplier, each iterated once from the start, yield the same
\* (date, prices) pair at every step, the draws of every step being made in
\* field order.
C14_SameSeedSameSequence ==
    walk.made =>
        /\ \A i \in Common : walk.src[1].first[i] = walk.src[2].first[i]
        /\ \A s \in Sources : DrawnInFieldOrder(s)

\* C15: the first pair of every iteration of a RandomAssetPriceHistory, for
\* every seed and price_multiplier, carries the base prices exactly, and
\* yielding it makes no draw from the object's Random.
C15_FirstSnapshotIsBase ==
    \A s \in Sources :
        (walk.made /\ walk.src[s].pull.iter > 0 /\ walk.src[s].pull.pos = 0) =>
            /\ walk.src[s].pull.prices = BasePrices
            /\ walk.src[s].pull.draws1 = walk.src[s].pull.draws0

\* C15 witness: an object seeded with 7 whose Random has already been drawn
\* from is iterated a second time and yields its first pair
C15_SecondIterationStarts ==
    /\ walk.made /\ walk.seed = 7 /\ walk.mult = DefaultMultiplier
    /\ \E s \in Sources :
           /\ walk.src[s].pull.iter = 2 /\ walk.src[s].pull.pos = 0
           /\ walk.src[s].pull.draws0 > 0

\* a fetch of the real history has failed: its generator finished before
\* it had produced RealDays pairs
FetchHasFailed == history.kind = "real" /\ days.done /\ days.pos < RealDays

\* C16: with no failed fetch the real history yields exactly 30 pairs, each
\* with all seven fields: day_count never exceeds 30, every next_day call
\* made after fewer than 30 pairs succeeds, and the call made after 30 pairs
\* (the 30th call, construction having pulled the first pair) raises
\* StopIteration.
C16_RealHistoryLength ==
    history.kind = "real" =>
        /\ day_count <= RealDays
        /\ phase = "ready" => DOMAIN current_prices = FieldSet
        /\ (last.op = "next_day" /\ ~FetchHasFailed) =>
               IF last.day0 < RealDays
               THEN last.raised = "none" /\ day_count = last.day0 + 1
               ELSE last.raised = "StopIteration" /\ day_count = RealDays

\* C16 witness: the 30th next_day call, after 29 that succeeded
C16_ThirtiethCallEnds ==
    /\ history.kind = "real"
    /\ last.op = "next_day" /\ last.day0 = RealDays
    /\ last.raised = "StopIteration"
    /\ days.pos = RealDays

\* C17: asset_values has no side effect in a state reached after
\* construction: the reads of its comprehension leave cash and the holdings
\* mapping (keys, order, quantities) as they were; it returns the fields with
\* a non-zero holding, in field order, each with holding * current price.
C17_AssetValuesIsPure ==
    phase = "ready" =>
        LET l    == AssetValuesList(current_prices, assets)
            kept == SelectSeq(Fields, LAMBDA f : Holding(assets, f) # 0)
        IN  /\ AssetValuesDict(assets) = assets
            /\ last.op = "asset_values" => CashAndAssetsKept
            /\ Len(l) = Len(kept)
            /\ \A i \in 1..Len(l) :
                   /\ l[i][1] = kept[i]
                   /\ l[i][2] = Holding(assets, kept[i])
                   /\ l[i][3] = ExactProduct(current_prices[kept[i]], l[i][2])

\* C18: run() ends only on the user's choice "4" or on a next_day that found
\* the history exhausted; a command that fails otherwise (WrongAssetName,
\* NotEnoughCash, NotEnoughAsset, a fetch error during next_day) is caught
\* and the loop goes on: no exception leaves run().
C18_LoopSurvivesFailures ==
    /\ loop # "crashed"
    /\ (loop = "done" /\ last.op = "next_day" /\ last.raised # "none") =>
           last.raised = "StopIteration"

\* C19: a buy or sell of a positive quantity that goes through leaves value
\* and profit as they were, and so does every other call but a next_day that
\* succeeds.
C19_TradesKeepValue ==
    (/\ phase = "ready"
     /\ last.op \in {"buy", "sell", "next_day", "asset_values", "value", "profit"}
     /\ ~(last.op = "next_day" /\ last.raised = "none")) =>
        /\ Value(cash, current_prices, assets)
               = Value(last.cash0, last.prices0, last.assets0)
        /\ Profit(cash, current_prices, assets, initial_value)
               = Profit(last.cash0, last.prices0, last.assets0, last.value0)

\* C20: a pull of the real history whose fetch fails raises the error to the
\* caller (of next_day or of the constructor) and finishes the generator;
\* every next_day made on a finished generator raises StopIteration, fetches
\* nothing and changes nothing, however few pairs were produced.
C20_FetchFailureExhausts ==
    [][history.kind = "real" =>
          /\ (~days.done /\ days.pos < RealDays
                /\ last'.op \in {"__post_init__", "next_day"}
                /\ DGe(cash, DZero)) =>
                 \/ /\ last'.raised = "none"
                    /\ days' = [days EXCEPT !.pos = @ + 1]
                 \/ /\ last'.raised = "RetrievalError"
                    /\ days' = [days EXCEPT !.done = TRUE]
                    /\ UNCHANGED <<day_count, current_date, current_prices>>
          /\ (days.done /\ last'.op = "next_day") =>
                 /\ last'.raised = "StopIteration"
                 /\ UNCHANGED <<days, day_count, current_date, current_prices,
                                cash, assets>>]_vars

\* C20 witness: a next_day that raised StopIteration on a real history that
\* had produced fewer than RealDays pairs, after a next_day whose fetch failed
C20_ExhaustedEarly ==
    /\ history.kind = "real" /\ phase = "ready"
    /\ last.op = "next_day" /\ last.raised = "StopIteration"
    /\ days.done /\ days.pos < RealDays /\ days.pos >= 1
    /\ ended

====
